---------------------------- MODULE Spec2Model ----------------------------
(***************************************************************************)
(* A model of package concordance (src/concordance.go).                    *)
(*                                                                         *)
(* The file holds two copies of the package.  Lines 1-177 are the current  *)
(* copy; lines 179-341 are an older copy that is identical except for the  *)
(* name scrubWord and for TruncateTopWords, which has no guard there.      *)
(* Spec models the current copy, SpecOld the older one, and SpecScrub      *)
(* applies ScrubWord to every short string over a small alphabet.          *)
(*                                                                         *)
(* Strings are sequences of byte values (Go indexes strings by byte).      *)
(* Go's 0-based index i is position i+1 of a TLA+ sequence.  Only ASCII    *)
(* bytes are drawn, where strings.ToLower is the byte-wise A-Z -> a-z map. *)
(* The input is modelled after tokenisation: bufio.ScanWords hands out     *)
(* non-empty runs of non-space bytes, one per call of scanner.Scan().      *)
(***************************************************************************)
EXTENDS Integers, Sequences, FiniteSets, TLC

VARIABLES
    caseSensitive,    \* NewConcordance / WordCount argument
    topWords,         \* NewConcordance argument
    tokens,           \* the tokens scanner.Scan() has handed out so far
    scanErr,          \* scanner.Err() # nil: the source failed before its end
    m,                \* WordCount's local map m
    total,            \* WordCount's local total
    tok,              \* the string last handed to ScrubWord
    word,             \* the result of the last ScrubWord call
    Counts,           \* Concordance.Counts
    Total,            \* Concordance.Total
    Unique,           \* Concordance.Unique
    MostUsed,         \* Concordance.MostUsed (the slice: the first len elements)
    backing,          \* the array under MostUsed (cap(MostUsed) elements)
    LengthHistogram,  \* Concordance.LengthHistogram
    todo,             \* keys of Counts the range loop of process has yet to visit
    lastN,            \* argument of the latest TruncateTopWords call
    phase             \* where the program is

vars == <<caseSensitive, topWords, tokens, scanErr, m, total, tok, word, Counts,
          Total, Unique, MostUsed, backing, LengthHistogram, todo, lastN, phase>>

---------------------------------------------------------------------------
(* Bounds of the model *)

\* most tokens the input source hands out
MaxTokens == 3
\* topWords and the n of later TruncateTopWords calls range over -1..MaxTop
MaxTop == 2
\* longest string ScrubWord is applied to under SpecScrub
MaxLen == 3

---------------------------------------------------------------------------
(* Program constants *)

\* make([]int, 64)
HistInit == 64

---------------------------------------------------------------------------
(* Inputs *)

\* n copies of byte c
Repeat(c, n) == [i \in 1..n |-> c]

\* "Don't"
TokDont == <<68, 111, 110, 39, 116>>
\* "don't!"
TokDontBang == <<100, 111, 110, 39, 116, 33>>
\* "42": no letter
TokDigits == <<52, 50>>
\* a word of 70 letters: one doubling of the histogram
TokLong == Repeat(120, HistInit + 6)
\* a word of 128 letters: needs the histogram doubled twice
TokHuge == Repeat(121, 2 * HistInit)

TokenSet == {TokDont, TokDontBang, TokDigits, TokLong, TokHuge}

TopArgs == -1..MaxTop

\* '1' '@' 'A' 'Z' '[' '`' 'a' 'z' '{': the letters' range ends and their neighbours
ScrubAlphabet == {49, 64, 65, 90, 91, 96, 97, 122, 123}

ScrubInputs == UNION {[1..n -> ScrubAlphabet] : n \in 0..MaxLen}

---------------------------------------------------------------------------
(* Pure functions *)

inRange(n, lo, hi) == n >= lo /\ n <= hi

alphaChar(r) == inRange(r, 65, 90) \/ inRange(r, 97, 122)

\* The for loops over a string or a slice are folds of their body over the
\* indices lo..hi-1 in increasing order.  The index range is split in halves
\* and the left half is computed in full before the right half starts, so
\* that the evaluation nests log(hi - lo) deep instead of hi - lo deep; the
\* body still sees the indices one by one, in order.

\* TRUE, once TLC has computed v
Computed(v) == v = v

\* One round of the first loop of ScrubWord at (0-based) index i.  st holds
\* i, minAlpha, anyAlpha and whether the loop has hit its break.
ScrubFirstBody(s, st, i) ==
    IF st.broke
    THEN st
    ELSE IF alphaChar(s[i + 1])
         THEN [i |-> i, minAlpha |-> i, anyAlpha |-> TRUE, broke |-> TRUE]
         ELSE [st EXCEPT !.i = i + 1]

RECURSIVE ScrubFirstLoop(_, _, _, _)
ScrubFirstLoop(s, st, lo, hi) ==
    IF lo >= hi THEN st
    ELSE IF hi = lo + 1 THEN ScrubFirstBody(s, st, lo)
    ELSE LET mid == (lo + hi) \div 2
             left == ScrubFirstLoop(s, st, lo, mid)
         IN  IF Computed(left) THEN ScrubFirstLoop(s, left, mid, hi) ELSE left

\* One round of the second loop of ScrubWord at index i
ScrubLastBody(s, st, i) ==
    IF alphaChar(s[i + 1])
    THEN [st EXCEPT !.anyAlpha = TRUE, !.maxAlpha = i]
    ELSE st

RECURSIVE ScrubLastLoop(_, _, _, _)
ScrubLastLoop(s, st, lo, hi) ==
    IF lo >= hi THEN st
    ELSE IF hi = lo + 1 THEN ScrubLastBody(s, st, lo)
    ELSE LET mid == (lo + hi) \div 2
             left == ScrubLastLoop(s, st, lo, mid)
         IN  IF Computed(left) THEN ScrubLastLoop(s, left, mid, hi) ELSE left

\* ScrubWord's locals as declared (lines 86-89)
ScrubLocals == [i |-> 0, minAlpha |-> 0, anyAlpha |-> FALSE, broke |-> FALSE]

\* A slip in the second loop: it resumes after the first letter found.
ScrubWordSkipsFirst(s) ==
    LET f == ScrubFirstLoop(s, ScrubLocals, 0, Len(s))
        l == ScrubLastLoop(s, [maxAlpha |-> 0, anyAlpha |-> f.anyAlpha],
                           f.i + 1, Len(s))
    IN  IF l.anyAlpha THEN SubSeq(s, f.minAlpha + 1, l.maxAlpha + 1) ELSE <<>>

\* s[minAlpha : maxAlpha+1] is SubSeq(s, minAlpha + 1, maxAlpha + 1)
ScrubWord(s) ==
    LET f == ScrubFirstLoop(s, ScrubLocals, 0, Len(s))
        l == ScrubLastLoop(s, [maxAlpha |-> 0, anyAlpha |-> f.anyAlpha],
                           f.i, Len(s))
    IN  IF l.anyAlpha THEN SubSeq(s, f.minAlpha + 1, l.maxAlpha + 1) ELSE <<>>

\* strings.ToLower on an ASCII string
ToLower(s) == [i \in 1..Len(s) |-> IF inRange(s[i], 65, 90) THEN s[i] + 32 ELSE s[i]]

\* A slip: the flag is ignored and no token is folded to lower case.
WordOfNeverFolds(cs, t) == ScrubWord(t)

\* the loop body's choice of word (lines 66-71)
WordOf(cs, t) == IF cs THEN ScrubWord(t) ELSE ScrubWord(ToLower(t))

\* m[w]++ on a Go map: a missing key reads as 0
MapIncr(mp, w) ==
    IF w \in DOMAIN mp
    THEN [mp EXCEPT ![w] = @ + 1]
    ELSE [k \in DOMAIN mp \cup {w} |-> IF k = w THEN 1 ELSE mp[k]]

\* A slip: the unparseable-word entry is left in the map.
MapDeleteForgotten(mp, w) == mp

\* delete(m, w)
MapDelete(mp, w) == [k \in DOMAIN mp \ {w} |-> mp[k]]

EmptyMap == [k \in {} |-> 0]

Zeros(n) == [i \in 1..n |-> 0]

ByCountLess(s, i, j) == s[i].Count < s[j].Count

ByCountSwap(s, i, j) == [s EXCEPT ![i] = s[j], ![j] = s[i]]

\* A slip: the sort.Reverse wrapper is left out, so the order is ascending.
ReverseLessForgotten(s, i, j) == ByCountLess(s, i, j)

\* sort.Reverse: Less(i, j) is the wrapped Less(j, i)
ReverseLess(s, i, j) == ByCountLess(s, j, i)

\* sort.Sort on at most 6 elements is insertion sort: the inner loop moves
\* element j down while it is less than its left neighbour.
RECURSIVE InsertDown(_, _)
InsertDown(data, j) ==
    IF j > 1 /\ ReverseLess(data, j, j - 1)
    THEN InsertDown(ByCountSwap(data, j, j - 1), j - 1)
    ELSE data

RECURSIVE InsertionSort(_, _)
InsertionSort(data, i) ==
    IF i <= Len(data) THEN InsertionSort(InsertDown(data, i), i + 1) ELSE data

\* sort.Sort(sort.Reverse(ByCount(c.MostUsed)))
SortMostUsed(data) == InsertionSort(data, 2)

\* A slip: the loop keeps the first index whose value is > 0, not the last.
TrimMaxKeepsFirst(hist, max, lo, hi) ==
    IF \E i \in lo..(hi - 1) : hist[i + 1] > 0
    THEN CHOOSE i \in lo..(hi - 1) :
             hist[i + 1] > 0 /\ \A j \in lo..(i - 1) : hist[j + 1] = 0
    ELSE max

\* The loop of trimHist over the indices lo..hi-1: max is the last index seen
\* whose value is > 0
RECURSIVE TrimMax(_, _, _, _)
TrimMax(hist, max, lo, hi) ==
    IF lo >= hi THEN max
    ELSE IF hi = lo + 1 THEN (IF hist[lo + 1] > 0 THEN lo ELSE max)
    ELSE LET mid == (lo + hi) \div 2
             left == TrimMax(hist, max, lo, mid)
         IN  IF Computed(left) THEN TrimMax(hist, left, mid, hi) ELSE left

\* A slip: the slice ends at max instead of max+1 and drops the last count.
trimHistDropsLast(hist) == SubSeq(hist, 1, TrimMax(hist, 0, 0, Len(hist)))

\* c.LengthHistogram[:max+1]
trimHist(hist) == SubSeq(hist, 1, TrimMax(hist, 0, 0, Len(hist)) + 1)

\* The histogram after the resize branch of process for a word of length
\* wordlen: newHist has 2*len slots whatever newlen was computed to be
\* (newlen is assigned and never read).
Resize(hist, wordlen) ==
    IF wordlen >= Len(hist) THEN hist \o Zeros(Len(hist)) ELSE hist

\* A slip in the guard: n >= 0 instead of n > 0, so that 0 empties the list.
TruncateTopWordsZeroCuts(mu, n) ==
    IF n >= 0 /\ Len(mu) > n THEN SubSeq(mu, 1, n) ELSE mu

\* TruncateTopWords of the current copy (lines 173-177)
TruncateTopWords(mu, n) ==
    IF n > 0 /\ Len(mu) > n THEN SubSeq(mu, 1, n) ELSE mu

\* c.MostUsed[:n] of the older copy (line 340) is legal for 0 <= n <= cap
OldTruncateInBounds(arr, n) == n >= 0 /\ n <= Len(arr)

\* c.MostUsed[:n]: the first n elements of the array under the slice
OldTruncateTopWords(arr, n) == SubSeq(arr, 1, n)

---------------------------------------------------------------------------
(* The state machine *)

Blank ==
    /\ tokens = <<>>
    /\ scanErr = FALSE
    /\ m = EmptyMap
    /\ total = 0
    /\ word = <<>>
    /\ Counts = EmptyMap
    /\ Total = 0
    /\ Unique = 0
    /\ MostUsed = <<>>
    /\ backing = <<>>
    /\ LengthHistogram = <<>>
    /\ todo = {}
    /\ lastN = 0

\* NewConcordance(scanner, caseSensitive, topWords) has been called
Init ==
    /\ caseSensitive \in BOOLEAN
    /\ topWords \in TopArgs
    /\ phase = "scan"
    /\ tok = <<>>
    /\ Blank

\* One round of WordCount's loop: scanner.Scan() hands out token t
Scan(t) ==
    /\ phase = "scan"
    /\ Len(tokens) < MaxTokens
    /\ tokens' = Append(tokens, t)
    /\ tok' = IF caseSensitive THEN t ELSE ToLower(t)
    /\ word' = WordOf(caseSensitive, t)
    /\ m' = MapIncr(m, word')
    /\ total' = total + 1
    /\ UNCHANGED <<caseSensitive, topWords, scanErr, Counts, Total, Unique,
                   MostUsed, backing, LengthHistogram, todo, lastN, phase>>

\* scanner.Scan() returns false: WordCount deletes "" and returns; NewConcordance
\* stores the results and process allocates the histogram and the ranking buffer.
WordCountReturns(err) ==
    /\ phase = "scan"
    /\ scanErr' = err
    /\ Counts' = MapDelete(m, <<>>)
    /\ Total' = total
    /\ Unique' = Cardinality(DOMAIN Counts')
    /\ LengthHistogram' = Zeros(HistInit)
    /\ MostUsed' = <<>>
    /\ backing' = <<>>
    /\ todo' = DOMAIN Counts'
    /\ phase' = "process"
    /\ UNCHANGED <<caseSensitive, topWords, tokens, m, total, tok, word, lastN>>

\* the source is exhausted
ScanEOF == WordCountReturns(FALSE)

\* the source fails (a read error, a token too long): Scan() returns false as
\* at the end of the input, and nothing reads scanner.Err()
ScanFails == WordCountReturns(TRUE)

\* One round of the range loop of process, for key k
ProcessEntry(k) ==
    /\ phase = "process"
    /\ k \in todo
    /\ todo' = todo \ {k}
    /\ MostUsed' = Append(MostUsed, [Word |-> k, Count |-> Counts[k]])
    /\ backing' = MostUsed'
    /\ LET wordlen == Len(k)
           hist == Resize(LengthHistogram, wordlen)
       IN  IF wordlen >= Len(hist)
           THEN \* index out of range: the runtime panics
                /\ LengthHistogram' = hist
                /\ phase' = "panic_process"
           ELSE /\ LengthHistogram' = [hist EXCEPT ![wordlen + 1] = @ + 1]
                /\ phase' = "process"
    /\ UNCHANGED <<caseSensitive, topWords, tokens, scanErr, m, total, tok, word,
                   Counts, Total, Unique, lastN>>

\* The range loop is over: process sorts and trims, and NewConcordance
\* truncates to topWords and returns (current copy).
ProcessFinish ==
    /\ phase = "process"
    /\ todo = {}
    /\ backing' = SortMostUsed(MostUsed)
    /\ LengthHistogram' = trimHist(LengthHistogram)
    /\ MostUsed' = TruncateTopWords(backing', topWords)
    /\ lastN' = topWords
    /\ phase' = "done"
    /\ UNCHANGED <<caseSensitive, topWords, tokens, scanErr, m, total, tok, word,
                   Counts, Total, Unique, todo>>

\* A later call c.TruncateTopWords(n) by the caller (current copy)
Truncate(n) ==
    /\ phase \in {"done", "truncated"}
    /\ MostUsed' = TruncateTopWords(MostUsed, n)
    /\ lastN' = n
    /\ phase' = "truncated"
    /\ UNCHANGED <<caseSensitive, topWords, tokens, scanErr, m, total, tok, word,
                   Counts, Total, Unique, backing, LengthHistogram, todo>>

\* The same two steps in the older copy, whose TruncateTopWords slices unguarded
OldProcessFinish ==
    /\ phase = "process"
    /\ todo = {}
    /\ backing' = SortMostUsed(MostUsed)
    /\ LengthHistogram' = trimHist(LengthHistogram)
    /\ lastN' = topWords
    /\ IF OldTruncateInBounds(backing', topWords)
       THEN /\ MostUsed' = OldTruncateTopWords(backing', topWords)
            /\ phase' = "done"
       ELSE /\ MostUsed' = backing'
            /\ phase' = "panic_truncate"
    /\ UNCHANGED <<caseSensitive, topWords, tokens, scanErr, m, total, tok, word,
                   Counts, Total, Unique, todo>>

OldTruncate(n) ==
    /\ phase \in {"done", "truncated"}
    /\ lastN' = n
    /\ IF OldTruncateInBounds(backing, n)
       THEN /\ MostUsed' = OldTruncateTopWords(backing, n)
            /\ phase' = "truncated"
       ELSE /\ MostUsed' = MostUsed
            /\ phase' = "panic_truncate"
    /\ UNCHANGED <<caseSensitive, topWords, tokens, scanErr, m, total, tok, word,
                   Counts, Total, Unique, backing, LengthHistogram, todo>>

Next ==
    \/ \E t \in TokenSet : Scan(t)
    \/ ScanEOF
    \/ ScanFails
    \/ \E k \in todo : ProcessEntry(k)
    \/ ProcessFinish
    \/ \E n \in TopArgs : Truncate(n)

Spec == Init /\ [][Next]_vars

NextOld ==
    \/ \E t \in TokenSet : Scan(t)
    \/ ScanEOF
    \/ ScanFails
    \/ \E k \in todo : ProcessEntry(k)
    \/ OldProcessFinish
    \/ \E n \in TopArgs : OldTruncate(n)

SpecOld == Init /\ [][NextOld]_vars

\* ScrubWord called on its own with string tok
InitScrub ==
    /\ caseSensitive = TRUE
    /\ topWords = 0
    /\ phase = "scrub"
    /\ tok \in ScrubInputs
    /\ Blank

ScrubCall ==
    /\ phase = "scrub"
    /\ word' = ScrubWord(tok)
    /\ phase' = "scrubbed"
    /\ UNCHANGED <<caseSensitive, topWords, tokens, scanErr, m, total, tok, Counts,
                   Total, Unique, MostUsed, backing, LengthHistogram, todo, lastN>>

NextScrub == ScrubCall

SpecScrub == InitScrub /\ [][NextScrub]_vars


---------------------------------------------------------------------------
(* What the claims speak of, stated without the program's own functions *)

IsLetter(b) == b \in 65..90 \/ b \in 97..122

LetterPositions(s) == {i \in 1..Len(s) : IsLetter(s[i])}

FirstLetter(s) ==
    CHOOSE i \in 1..Len(s) : IsLetter(s[i]) /\ \A j \in 1..(i - 1) : ~IsLetter(s[j])

LastLetter(s) ==
    CHOOSE i \in 1..Len(s) : IsLetter(s[i]) /\ \A j \in (i + 1)..Len(s) : ~IsLetter(s[j])

SetMax(S) == CHOOSE x \in S : \A y \in S : x >= y

\* s from its first letter to its last letter, or empty when it has none
FirstToLastLetter(s) ==
    IF \E i \in 1..Len(s) : IsLetter(s[i])
    THEN SubSeq(s, FirstLetter(s), LastLetter(s))
    ELSE <<>>

Lowercase(s) == [i \in 1..Len(s) |-> IF s[i] \in 65..90 THEN s[i] + 32 ELSE s[i]]

\* the word of token t under the flag
WordOfToken(t) ==
    IF caseSensitive THEN FirstToLastLetter(t) ELSE FirstToLastLetter(Lowercase(t))

\* the words of the tokens of the input, in order
Words == [i \in 1..Len(tokens) |-> WordOfToken(tokens[i])]

\* the positions of ws that hold w
Occurrences(ws, w) == {i \in 1..Len(ws) : ws[i] = w}

RECURSIVE SumCounts(_)
SumCounts(mp) ==
    IF DOMAIN mp = {}
    THEN 0
    ELSE LET k == CHOOSE x \in DOMAIN mp : TRUE
         IN  mp[k] + SumCounts([x \in DOMAIN mp \ {k} |-> mp[x]])

RECURSIVE SumRange(_, _, _)
SumRange(h, lo, hi) ==
    IF lo > hi THEN 0
    ELSE IF lo = hi THEN h[lo]
    ELSE LET mid == (lo + hi) \div 2
             left == SumRange(h, lo, mid)
         IN  IF Computed(left) THEN left + SumRange(h, mid + 1, hi) ELSE left

SumHist(h) == SumRange(h, 1, Len(h))

\* the keys the range loop of process has visited
Visited == DOMAIN Counts \ todo

WithLength(S, n) == {w \in S : Len(w) = n}

\* WordCount has returned: nothing later assigns Counts or Total
WordCountReturned == phase \in {"process", "panic_process", "done", "truncated",
                                "panic_truncate"}

\* the state WordCount returns in
WordCountJustReturned == phase = "process" /\ MostUsed = <<>>

Returned == phase = "done"

MinOf(a, b) == IF a <= b THEN a ELSE b

---------------------------------------------------------------------------
(* The claims *)

\* C1: in the pass of process over the map, every visited word of length L
\* has slot L in bounds and counted, whatever L is: the increment never
\* indexes out of bounds and the counts recorded before a growth stay at
\* their index.
C1_GrowthReachesEveryLength ==
    /\ phase # "panic_process"
    /\ phase = "process" =>
         \A w \in Visited :
             /\ Len(w) < Len(LengthHistogram)
             /\ LengthHistogram[Len(w) + 1] = Cardinality(WithLength(Visited, Len(w)))

\* C2: the Concordance NewConcordance returns has sum(LengthHistogram) =
\* Unique = the number of keys of Counts.
C2_HistogramSumsToUnique ==
    Returned =>
        /\ SumHist(LengthHistogram) = Unique
        /\ Unique = Cardinality(DOMAIN Counts)

C2_Witness ==
    /\ Returned
    /\ Unique >= 2
    /\ \E w \in DOMAIN Counts : Counts[w] >= 2
    /\ \E w \in DOMAIN Counts : Len(w) >= HistInit

\* C3: WordCount returns Total = the number of tokens scanned, never has the
\* empty word as a key, and the counts sum to Total less the tokens that
\* scrub to empty.
C3_TotalCountsEveryToken ==
    WordCountJustReturned =>
        LET empties == Occurrences(Words, <<>>)
        IN  /\ Total = Len(tokens)
            /\ <<>> \notin DOMAIN Counts
            /\ SumCounts(Counts) = Total - Cardinality(empties)
            /\ SumCounts(Counts) <= Total
            /\ (SumCounts(Counts) = Total) <=> (empties = {})

C3_Witness ==
    /\ WordCountJustReturned
    /\ Occurrences(Words, <<>>) # {}
    /\ DOMAIN Counts # {}
    /\ SumCounts(Counts) < Total

\* C4: TruncateTopWords(n) never indexes out of bounds; with n <= 0 or
\* n >= len(MostUsed) it leaves MostUsed as it is; and a second call with the
\* same n changes nothing.
C4_TruncateIsSafe ==
    [][/\ phase' # "panic_truncate"
       /\ phase \in {"done", "truncated"} =>
            /\ (lastN' <= 0 \/ lastN' >= Len(MostUsed)) => MostUsed' = MostUsed
            /\ lastN' = lastN => MostUsed' = MostUsed]_vars

\* C5: when the input source fails before its end, having handed out some
\* tokens, WordCount and NewConcordance do not return a result computed from
\* the tokens read so far.
C5_FailureNotReturnedAsResult == ~(scanErr /\ WordCountReturned /\ Total > 0)

\* C6: MostUsed as returned by NewConcordance is non-increasing by count.
C6_MostUsedDescending ==
    Returned =>
        \A i \in 1..(Len(MostUsed) - 1) : MostUsed[i].Count >= MostUsed[i + 1].Count

C6_Witness ==
    /\ Returned
    /\ Len(MostUsed) >= 2
    /\ MostUsed[1].Count > MostUsed[2].Count

\* C7: ScrubWord(s) is empty when s has no ASCII letter, and otherwise is s
\* from its first letter to its last letter, the interior unchanged.
C7_ScrubIsFirstToLastLetter ==
    phase = "scrubbed" => word = FirstToLastLetter(tok)

C7_Witness ==
    /\ phase = "scrubbed"
    /\ Len(tok) = 3
    /\ LetterPositions(tok) = {2}
    /\ word = <<tok[2]>>

\* C8: the map WordCount returns gives each non-empty word the number of
\* tokens whose word it is, the word being ScrubWord(t) or, case-insensitive,
\* ScrubWord(lowercase(t)); case-insensitive keys hold no uppercase letter.
C8_CountsAreOccurrences ==
    WordCountJustReturned =>
        LET ws == Words
        IN  /\ DOMAIN Counts = {ws[i] : i \in 1..Len(ws)} \ {<<>>}
            /\ \A w \in DOMAIN Counts : Counts[w] = Cardinality(Occurrences(ws, w))
            /\ ~caseSensitive =>
                 \A w \in DOMAIN Counts : \A i \in 1..Len(w) : w[i] \notin 65..90

C8_Witness ==
    /\ WordCountJustReturned
    /\ ~caseSensitive
    /\ \E i, j \in 1..Len(tokens) : tokens[i] = TokDont /\ tokens[j] = TokDontBang
    /\ Counts[<<100, 111, 110, 39, 116>>] = 2

\* C9: after NewConcordance MostUsed holds min(topWords, Unique) entries when
\* topWords > 0 and Unique entries otherwise; they are distinct keys of Counts
\* with their counts; no word left out has a greater count than a word kept.
C9_TopWordsKept ==
    Returned =>
        /\ Len(MostUsed) = IF topWords > 0 THEN MinOf(topWords, Unique) ELSE Unique
        /\ \A i \in 1..Len(MostUsed) :
             /\ MostUsed[i].Word \in DOMAIN Counts
             /\ MostUsed[i].Count = Counts[MostUsed[i].Word]
        /\ \A i, j \in 1..Len(MostUsed) : i # j => MostUsed[i].Word # MostUsed[j].Word
        /\ \A w \in DOMAIN Counts \ {MostUsed[i].Word : i \in 1..Len(MostUsed)} :
             \A i \in 1..Len(MostUsed) : Counts[w] <= MostUsed[i].Count

C9_Witness ==
    /\ Returned
    /\ topWords = 1
    /\ Unique = 2
    /\ Len(MostUsed) = 1
    /\ \E w \in DOMAIN Counts : Counts[w] < MostUsed[1].Count

\* C10: after NewConcordance LengthHistogram ends at the longest word's
\* length with a non-zero slot and slot 0 zero, or is one zero slot when
\* Counts is empty.
C10_HistogramTrimmed ==
    Returned =>
        IF DOMAIN Counts = {}
        THEN LengthHistogram = <<0>>
        ELSE /\ Len(LengthHistogram) = 1 + SetMax({Len(w) : w \in DOMAIN Counts})
             /\ LengthHistogram[Len(LengthHistogram)] # 0
             /\ LengthHistogram[1] = 0

C10_Witness ==
    /\ Returned
    /\ Len(LengthHistogram) = HistInit + 7
    /\ Unique >= 2

=============================================================================
